---- MODULE Spec2Model ----
(***************************************************************************)
(* Model of src/ai/debug.ts: the debug-adapter session engine of veonim.   *)
(*                                                                         *)
(* One step of the model is one turn of the JavaScript event loop: the     *)
(* delivery of a notification, of a response or of a rejection, or one     *)
(* call made by the UI, followed by everything the code runs synchronously *)
(* (microtasks included) up to the next await of an adapter response.      *)
(*                                                                         *)
(* A JavaScript object is a function from property names to values; a      *)
(* property that is missing reads as undefined.                            *)
(***************************************************************************)
EXTENDS Integers, Sequences, FiniteSets, TLC

(* ------------------------------ bounds --------------------------------- *)

\* thread ids the adapter uses are 0..MaxThreadId
MaxThreadId == 1
\* stack-frame ids the adapter uses are 0..MaxFrameId
MaxFrameId == 1
\* variablesReference values the adapter uses are 1..MaxVarRef
MaxVarRef == 1
\* handler invocations (cascades, user selections) that may be in flight at once
MaxTasks == 2
\* what the environment does in one run of Spec: 'thread' notifications and calls
\* of switchActiveDebugger (and one start() call per id of Sessions)
MaxThreadEvents == 2
MaxSwitches == 1
\* what the environment does in one run of SpecCascade: calls of start(), 'thread'
\* and 'stopped' notifications, calls of userSelectStack and userSelectScope
CascadeStarts == 1
CascadeThreadEvents == 1
CascadeStoppedEvents == 1
CascadeSelects == 1

\* what the environment does in one run of SpecProjection: 'stopped' notifications
\* and calls of switchActiveDebugger (and one start() call per id of Sessions)
ProjectionStoppedEvents == 1
ProjectionSwitches == 1

\* what the environment does in one run of SpecCapabilities: calls of start() and
\* 'capabilities' notifications
CapabilitiesStarts == 1
CapabilitiesEvents == 2

\* what the environment does in one run of SpecControls: calls of start(), of
\* userSelectStack and userSelectScope, debug-next and debug-continue actions
ControlsStarts == 1
ControlsSelects == 1
ControlsDebugActions == 1

\* what the environment does in one run of SpecHandshake: calls of start()
\* and 'initialized' notifications
HandshakeStarts == 1
HandshakeInitializedEvents == 2

\* what the environment does in one run of SpecOverlap: calls of start() and
\* 'stopped' notifications
OverlapStarts == 1
OverlapStoppedEvents == 2

(* ------------------------------ values --------------------------------- *)

\* ids uuid() can return, one per start() call
Sessions == {"s1", "s2"}
\* adapter types start() is called with
Types == {"node"}
\* the initial value of activeDebugger
lolnope == "lolnope"
\* ids the UI may pass to switchActiveDebugger: those of Sessions, registered or
\* not, and the initial value of activeDebugger
SwitchIds == Sessions \cup {lolnope}

\* the 'unselected' value of activeThread, activeStack, activeScope
Unselected == -1
\* JavaScript's undefined, where a number is expected
Undefined == Unselected - 1
\* JavaScript's undefined, where a string (an id, a type, a channel) is expected
UndefinedStr == "undefined"

RegistryQuota ==
  [start |-> Cardinality(Sessions), thread |-> MaxThreadEvents, stopped |-> 0,
   switch |-> MaxSwitches, select |-> 0, debug |-> 0,
   capabilities |-> 0, initialized |-> 0]

CascadeQuota ==
  [start |-> CascadeStarts, thread |-> CascadeThreadEvents, stopped |-> CascadeStoppedEvents,
   switch |-> 0, select |-> CascadeSelects, debug |-> 0,
   capabilities |-> 0, initialized |-> 0]

ProjectionQuota ==
  [start |-> Cardinality(Sessions), thread |-> 0, stopped |-> ProjectionStoppedEvents,
   switch |-> ProjectionSwitches, select |-> 0, debug |-> 0,
   capabilities |-> 0, initialized |-> 0]

CapabilitiesQuota ==
  [start |-> CapabilitiesStarts, thread |-> 0, stopped |-> 0, switch |-> 0, select |-> 0,
   debug |-> 0, capabilities |-> CapabilitiesEvents, initialized |-> 0]

ControlsQuota ==
  [start |-> ControlsStarts, thread |-> 0, stopped |-> 0, switch |-> 0,
   select |-> ControlsSelects, debug |-> ControlsDebugActions,
   capabilities |-> 0, initialized |-> 0]

HandshakeQuota ==
  [start |-> HandshakeStarts, thread |-> 0, stopped |-> 0, switch |-> 0,
   select |-> 0, debug |-> 0, capabilities |-> 0,
   initialized |-> HandshakeInitializedEvents]

OverlapQuota ==
  [start |-> OverlapStarts, thread |-> 0, stopped |-> OverlapStoppedEvents, switch |-> 0,
   select |-> 0, debug |-> 0, capabilities |-> 0, initialized |-> 0]

ThreadIds == 0..MaxThreadId
FrameIds == 0..MaxFrameId
VarRefs == 1..MaxVarRef

\* what the adapter may answer to 'threads', 'stackTrace', 'scopes', 'variables'
ThreadLists == {<<>>} \cup {<<[id |-> t]>> : t \in ThreadIds}
FrameLists == {<<>>} \cup {<<[id |-> f]>> : f \in FrameIds}
ScopeLists == {<<>>} \cup {<<[variablesReference |-> r]>> : r \in VarRefs}
VariableLists == {<<>>, <<[name |-> "x"]>>}

(* --------------------------- JavaScript objects ------------------------ *)

\* {}
EmptyObj == [k \in {} |-> Undefined]

\* obj.k for a numeric property
GetNum(obj, k) == IF k \in DOMAIN obj THEN obj[k] ELSE Undefined

\* obj.k for a string property
GetStr(obj, k) == IF k \in DOMAIN obj THEN obj[k] ELSE UndefinedStr

\* a || b on numbers: a when it is truthy (neither undefined nor 0)
OrElse(a, b) == IF a = Undefined \/ a = 0 THEN b ELSE a

\* merge(target, source) of support/utils: the properties of source laid over
\* those of target (the caller's target object is assigned the result)
merge(target, source) == source @@ target

\* { rpc, ...next } = obj : the object without its rpc property
WithoutRpc(obj) == [k \in (DOMAIN obj) \ {"rpc"} |-> obj[k]]

(* ------------------------------- Map ----------------------------------- *)
\* a Map is the sequence of its [key, val] pairs in insertion order

MapKeys(m) == {m[i].key : i \in 1..Len(m)}

MapHas(m, k) == k \in MapKeys(m)

MapIndex(m, k) == CHOOSE i \in 1..Len(m) : m[i].key = k

MapGet(m, k) == m[MapIndex(m, k)].val

MapSet(m, k, v) ==
  IF MapHas(m, k)
    THEN [m EXCEPT ![MapIndex(m, k)] = [key |-> k, val |-> v]]
    ELSE Append(m, [key |-> k, val |-> v])

MapValues(m) == [i \in 1..Len(m) |-> m[i].val]

(* ------------------------------- state --------------------------------- *)

VARIABLES
  debuggers,       \* the registry: Map<string, Debugger>
  activeDebugger,  \* the active id
  starts,          \* per start() call: where it is, its local dbg object, its features,
                   \* whether it has sent 'launch'
  tasks,           \* the handler invocations and user selections in flight
  ui,              \* the UI sink: every partial state it was given, reconciled
  step,            \* what the last step did: its publications, requests, outcome
  quota            \* what the environment may still do in this run, per kind

vars == <<debuggers, activeDebugger, starts, tasks, ui, step, quota>>

\* the object literal start() builds (rpc is the channel of that call)
NewDebugger(type, id) ==
  [type |-> type, id |-> id,
   activeThread |-> Unselected, activeStack |-> Unselected, activeScope |-> Unselected,
   threads |-> <<>>, stackFrames |-> <<>>, scopes |-> <<>>, variables |-> <<>>,
   rpc |-> id]

NoStart == [pc |-> "idle", dbg |-> EmptyObj, features |-> EmptyObj, launched |-> FALSE]

\* an invocation of an async handler: the locals it holds across its awaits and,
\* for a 'stopped' cascade, how many 'stopped' notifications were still to come
\* when it began (left) and whether a cascade of its session that began later
\* has completed meanwhile (overtaken)
NoTask == [kind |-> "free", sess |-> "", pc |-> "", threadId |-> Undefined,
           targetThread |-> Undefined, stackFrames |-> <<>>, scopes |-> <<>>,
           left |-> 0, overtaken |-> FALSE]

NoStep == [op |-> "init", sess |-> "", id |-> "", num |-> Undefined, ret |-> FALSE,
           fault |-> FALSE, done |-> FALSE, pubs |-> <<>>, reqs |-> <<>>, task |-> NoTask,
           obj |-> EmptyObj]

\* a request handed to a channel
Request(rpc, command, arg) == [rpc |-> rpc, command |-> command, arg |-> arg]

\* debugUI.updateState: the sink lays each partial state over what it holds
RECURSIVE updateState(_, _)
updateState(view, pubs) ==
  IF pubs = <<>> THEN view ELSE updateState(merge(view, Head(pubs)), Tail(pubs))

\* the environment does one more thing of a kind
Spend(kind) == quota[kind] > 0 /\ quota' = [quota EXCEPT ![kind] = @ - 1]

InitWith(q) ==
  /\ debuggers = <<>>
  /\ activeDebugger = lolnope
  /\ starts = [s \in Sessions |-> NoStart]
  /\ tasks = [t \in 1..MaxTasks |-> NoTask]
  /\ ui = EmptyObj
  /\ step = NoStep
  /\ quota = q

(* --------------------------- the registry ------------------------------ *)

listActiveDebuggers(dbgs) ==
  LET values == MapValues(dbgs)
  IN  [i \in 1..Len(values) |-> [id |-> GetStr(values[i], "id"),
                                 type |-> GetStr(values[i], "type")]]

\* the object updateDebuggerState merges the state into
StoredOrEmpty(dbgs, id) == IF MapHas(dbgs, id) THEN MapGet(dbgs, id) ELSE EmptyObj

\* the registry after updateDebuggerState(id, state)
updateDebuggerState(dbgs, id, state) ==
  LET merged == merge(StoredOrEmpty(dbgs, id), state)
      next == WithoutRpc(merged)
  IN  MapSet(dbgs, id, merge([rpc |-> GetStr(merged, "rpc")], next))

\* what updateDebuggerState(id, state) publishes, given the active id
updateDebuggerStatePubs(dbgs, active, id, state) ==
  IF id # active THEN <<>>
  ELSE <<[next |-> WithoutRpc(merge(StoredOrEmpty(dbgs, id), state)),
          debuggers |-> listActiveDebuggers(updateDebuggerState(dbgs, id, state))]>>

\* switchActiveDebugger without its test of debuggers.has(id)
switchActiveDebuggerUnchecked(id) ==
  /\ Spend("switch")
  /\ LET dbg == StoredOrEmpty(debuggers, id)
         pub == [activeDebugger |-> id,
                 activeThread |-> GetNum(dbg, "activeThread"),
                 activeStack |-> GetNum(dbg, "activeStack"),
                 activeScope |-> GetNum(dbg, "activeScope")]
     IN  /\ activeDebugger' = id
         /\ ui' = updateState(ui, <<pub>>)
         /\ step' = [NoStep EXCEPT !.op = "switchActiveDebugger", !.id = id,
                                   !.sess = id, !.ret = TRUE, !.done = TRUE,
                                   !.pubs = <<pub>>]
  /\ UNCHANGED <<debuggers, starts, tasks>>

\* switchActiveDebugger reporting failure for an unknown id only after it has
\* made the id active
switchActiveDebuggerLateCheck(id) ==
  /\ Spend("switch")
  /\ activeDebugger' = id
  /\ IF ~MapHas(debuggers, id)
       THEN /\ step' = [NoStep EXCEPT !.op = "switchActiveDebugger", !.id = id,
                                      !.ret = FALSE, !.done = TRUE]
            /\ UNCHANGED ui
       ELSE LET dbg == MapGet(debuggers, id)
                pub == [activeDebugger |-> id,
                        activeThread |-> GetNum(dbg, "activeThread"),
                        activeStack |-> GetNum(dbg, "activeStack"),
                        activeScope |-> GetNum(dbg, "activeScope")]
            IN  /\ ui' = updateState(ui, <<pub>>)
                /\ step' = [NoStep EXCEPT !.op = "switchActiveDebugger", !.id = id,
                                          !.sess = id, !.ret = TRUE, !.done = TRUE,
                                          !.pubs = <<pub>>]
  /\ UNCHANGED <<debuggers, starts, tasks>>

\* switchActiveDebugger publishing the selection of the session that was active
switchActiveDebuggerStale(id) ==
  /\ Spend("switch")
  /\ IF ~MapHas(debuggers, id)
       THEN /\ step' = [NoStep EXCEPT !.op = "switchActiveDebugger", !.id = id,
                                      !.ret = FALSE, !.done = TRUE]
            /\ UNCHANGED <<activeDebugger, ui>>
       ELSE LET dbg == StoredOrEmpty(debuggers, activeDebugger)
                pub == [activeDebugger |-> id,
                        activeThread |-> GetNum(dbg, "activeThread"),
                        activeStack |-> GetNum(dbg, "activeStack"),
                        activeScope |-> GetNum(dbg, "activeScope")]
            IN  /\ activeDebugger' = id
                /\ ui' = updateState(ui, <<pub>>)
                /\ step' = [NoStep EXCEPT !.op = "switchActiveDebugger", !.id = id,
                                          !.sess = id, !.ret = TRUE, !.done = TRUE,
                                          !.pubs = <<pub>>]
  /\ UNCHANGED <<debuggers, starts, tasks>>

switchActiveDebugger(id) ==
  /\ Spend("switch")
  /\ IF ~MapHas(debuggers, id)
       THEN /\ step' = [NoStep EXCEPT !.op = "switchActiveDebugger", !.id = id,
                                      !.ret = FALSE, !.done = TRUE]
            /\ UNCHANGED <<activeDebugger, ui>>
       ELSE LET dbg == MapGet(debuggers, id)
                pub == [activeDebugger |-> id,
                        activeThread |-> GetNum(dbg, "activeThread"),
                        activeStack |-> GetNum(dbg, "activeStack"),
                        activeScope |-> GetNum(dbg, "activeScope")]
            IN  /\ activeDebugger' = id
                /\ ui' = updateState(ui, <<pub>>)
                /\ step' = [NoStep EXCEPT !.op = "switchActiveDebugger", !.id = id,
                                          !.sess = id, !.ret = TRUE, !.done = TRUE,
                                          !.pubs = <<pub>>]
  /\ UNCHANGED <<debuggers, starts, tasks>>

(* ------------------------------ start() -------------------------------- *)

\* the ids uuid() has returned
Started == {s \in Sessions : starts[s].pc # "idle"}

\* uuid(): an id no earlier call was given
uuid == CHOOSE s \in Sessions : starts[s].pc = "idle"

\* start(type) up to its first await, extensions.start.debug(type)
start(type) ==
  /\ \E s \in Sessions : starts[s].pc = "idle"
  /\ Spend("start")
  /\ starts' = [starts EXCEPT ![uuid] = [pc |-> "connect",
                                         dbg |-> NewDebugger(type, uuid),
                                         features |-> EmptyObj, launched |-> FALSE]]
  /\ step' = [NoStep EXCEPT !.op = "start", !.sess = uuid]
  /\ UNCHANGED <<debuggers, activeDebugger, tasks, ui>>

\* the channel is open: the handlers are installed and 'initialize' is sent
startConnected(s) ==
  /\ starts[s].pc = "connect"
  /\ starts' = [starts EXCEPT ![s].pc = "initialize"]
  /\ step' = [NoStep EXCEPT !.op = "startConnected", !.sess = s,
                            !.reqs = <<Request(s, "initialize", Undefined)>>]
  /\ UNCHANGED <<debuggers, activeDebugger, tasks, ui, quota>>

\* objToMap(obj, map) of support/utils: every key of obj set in map
objToMap(obj, map) == merge(map, obj)

\* capability objects an adapter may send
CapabilityObjects == {[supportsConfigurationDoneRequest |-> TRUE]}

\* every capability object an adapter may send, in an 'initialize' response or a
\* 'capabilities' notification
AllCapabilityObjects ==
  {EmptyObj,
   [supportsConfigurationDoneRequest |-> TRUE],
   [supportsConfigurationDoneRequest |-> FALSE],
   [supportsFunctionBreakpoints |-> TRUE]}

\* the 'initialize' response handled by a start() that keeps its capabilities in
\* a new map
startInitializedFresh(s, supportedCapabilities) ==
  /\ starts[s].pc = "initialize"
  /\ starts' = [starts EXCEPT ![s].pc = "launch", ![s].launched = TRUE,
                              ![s].features = objToMap(supportedCapabilities, EmptyObj)]
  /\ step' = [NoStep EXCEPT !.op = "startInitialized", !.sess = s,
                            !.obj = supportedCapabilities,
                            !.reqs = <<Request(s, "launch", Undefined)>>]
  /\ UNCHANGED <<debuggers, activeDebugger, tasks, ui, quota>>

\* the 'initialize' response: its capabilities are kept and 'launch' is sent
startInitialized(s, supportedCapabilities) ==
  /\ starts[s].pc = "initialize"
  /\ starts' = [starts EXCEPT ![s].pc = "launch", ![s].launched = TRUE,
                              ![s].features = objToMap(supportedCapabilities, @)]
  /\ step' = [NoStep EXCEPT !.op = "startInitialized", !.sess = s,
                            !.obj = supportedCapabilities,
                            !.reqs = <<Request(s, "launch", Undefined)>>]
  /\ UNCHANGED <<debuggers, activeDebugger, tasks, ui, quota>>

\* the 'launch' response: 'threads' is sent
startLaunched(s) ==
  /\ starts[s].pc = "launch"
  /\ starts' = [starts EXCEPT ![s].pc = "threads"]
  /\ step' = [NoStep EXCEPT !.op = "startLaunched", !.sess = s,
                            !.reqs = <<Request(s, "threads", Undefined)>>]
  /\ UNCHANGED <<debuggers, activeDebugger, tasks, ui, quota>>

\* (threads[0] || {}).id || -1
FirstThreadOrUnselected(threads) ==
  OrElse(IF threads = <<>> THEN Undefined ELSE threads[1].id, Unselected)

\* the startup 'threads' response: the session is registered and made active
startThreads(s, threads) ==
  /\ starts[s].pc = "threads"
  /\ LET dbg == merge(starts[s].dbg,
                      [threads |-> threads, activeThread |-> FirstThreadOrUnselected(threads)])
         pubs == updateDebuggerStatePubs(debuggers, activeDebugger, s, dbg)
     IN  /\ starts' = [starts EXCEPT ![s].pc = "done", ![s].dbg = dbg]
         /\ debuggers' = updateDebuggerState(debuggers, s, dbg)
         /\ activeDebugger' = s
         /\ ui' = updateState(ui, pubs)
         /\ step' = [NoStep EXCEPT !.op = "startThreads", !.sess = s, !.done = TRUE,
                                   !.pubs = pubs]
  /\ UNCHANGED <<tasks, quota>>

\* extensions.start.debug is rejected ("unconnected": no channel, no handler) or
\* a startup request is rejected ("failed"): start() throws
startRejected(s) ==
  /\ starts[s].pc \in {"connect", "initialize", "launch", "threads"}
  /\ starts' = [starts EXCEPT ![s].pc = IF @ = "connect" THEN "unconnected" ELSE "failed"]
  /\ step' = [NoStep EXCEPT !.op = "startRejected", !.sess = s, !.fault = TRUE,
                            !.done = TRUE]
  /\ UNCHANGED <<debuggers, activeDebugger, tasks, ui, quota>>

\* the handlers of a start() call are installed once its channel is open
Listening(s) == starts[s].pc \in {"initialize", "launch", "threads", "done", "failed"}

(* ---------------------------- notifications ---------------------------- *)

onThread(s, threadId) ==
  /\ Listening(s)
  /\ Spend("thread")
  /\ LET state == [activeThread |-> threadId]
         pubs == updateDebuggerStatePubs(debuggers, activeDebugger, s, state)
     IN  /\ debuggers' = updateDebuggerState(debuggers, s, state)
         /\ ui' = updateState(ui, pubs)
         /\ step' = [NoStep EXCEPT !.op = "onThread", !.sess = s, !.num = threadId,
                                   !.done = TRUE, !.pubs = pubs]
  /\ UNCHANGED <<activeDebugger, starts, tasks>>

\* the 'capabilities' handler
onCapabilities(s, capabilities) ==
  /\ Listening(s)
  /\ Spend("capabilities")
  /\ starts' = [starts EXCEPT ![s].features = objToMap(capabilities, @)]
  /\ step' = [NoStep EXCEPT !.op = "onCapabilities", !.sess = s, !.obj = capabilities,
                            !.done = TRUE]
  /\ UNCHANGED <<debuggers, activeDebugger, tasks, ui>>

\* the first slot no invocation occupies
FreeTask == CHOOSE t \in 1..MaxTasks : tasks[t].kind = "free" /\ \A u \in 1..(t - 1) : tasks[u].kind # "free"

\* the 'stopped' handler up to its first await: refresh.threads() sends 'threads'
onStopped(s, threadId) ==
  /\ Listening(s)
  /\ Spend("stopped")
  /\ \E t \in 1..MaxTasks : tasks[t].kind = "free"
  /\ LET task == [NoTask EXCEPT !.kind = "stopped", !.sess = s, !.pc = "threads",
                                !.threadId = threadId, !.left = quota'.stopped,
                                !.targetThread = OrElse(threadId, starts[s].dbg.activeThread)]
     IN  /\ tasks' = [tasks EXCEPT ![FreeTask] = task]
         /\ step' = [NoStep EXCEPT !.op = "onStopped", !.sess = s, !.num = threadId,
                                   !.reqs = <<Request(s, "threads", Undefined)>>,
                                   !.task = task]
  /\ UNCHANGED <<debuggers, activeDebugger, starts, ui>>

(* ------------------------- responses to Refresher ---------------------- *)

\* a step of an invocation: what it publishes and requests, and how it goes on
\* (next = NoTask when the invocation is over)
Continue(t, op, pubs, reqs, next, fault) ==
  /\ tasks' = [u \in 1..MaxTasks |->
                 IF u = t THEN next
                 ELSE IF /\ op = "respondVariables" /\ tasks[t].kind = "stopped"
                         /\ tasks[u].kind = "stopped" /\ tasks[u].sess = tasks[t].sess
                         /\ tasks[u].left > tasks[t].left
                        THEN [tasks[u] EXCEPT !.overtaken = TRUE]
                        ELSE tasks[u]]
  /\ ui' = updateState(ui, pubs)
  /\ step' = [NoStep EXCEPT !.op = op, !.sess = tasks[t].sess, !.pubs = pubs,
                            !.reqs = reqs, !.fault = fault,
                            !.done = (next = NoTask), !.task = tasks[t]]
  /\ UNCHANGED <<debuggers, activeDebugger, starts, quota>>

\* refresh.threads() resumes, then the 'stopped' handler: 'stackTrace' is sent
respondThreads(t, threads) ==
  /\ tasks[t].kind = "stopped" /\ tasks[t].pc = "threads"
  /\ Continue(t, "respondThreads", <<[threads |-> threads]>>,
              <<Request(tasks[t].sess, "stackTrace", tasks[t].targetThread)>>,
              [tasks[t] EXCEPT !.pc = "stackTrace"], FALSE)

\* refresh.stackFrames() resumes, then the 'stopped' handler reads stackFrames[0].id
respondStackTrace(t, stackFrames) ==
  /\ tasks[t].kind = "stopped" /\ tasks[t].pc = "stackTrace"
  /\ IF stackFrames = <<>>
       THEN Continue(t, "respondStackTrace", <<[stackFrames |-> stackFrames]>>, <<>>,
                     NoTask, TRUE)
       ELSE Continue(t, "respondStackTrace", <<[stackFrames |-> stackFrames]>>,
                     <<Request(tasks[t].sess, "scopes", stackFrames[1].id)>>,
                     [tasks[t] EXCEPT !.pc = "scopes", !.stackFrames = stackFrames], FALSE)

\* refresh.scopes() resumes, then its caller reads scopes[0].variablesReference
respondScopes(t, scopes) ==
  /\ tasks[t].kind \in {"stopped", "userSelectStack"} /\ tasks[t].pc = "scopes"
  /\ IF scopes = <<>>
       THEN Continue(t, "respondScopes", <<[scopes |-> scopes]>>, <<>>, NoTask, TRUE)
       ELSE Continue(t, "respondScopes",
                     IF tasks[t].kind = "stopped"
                       THEN <<[scopes |-> scopes]>>
                       ELSE <<[scopes |-> scopes],
                              [activeScope |-> scopes[1].variablesReference]>>,
                     <<Request(tasks[t].sess, "variables", scopes[1].variablesReference)>>,
                     [tasks[t] EXCEPT !.pc = "variables", !.scopes = scopes], FALSE)

\* a 'stopped' handler that drops its selection when a later cascade has completed
respondVariablesUnlessOvertaken(t, variables) ==
  /\ tasks[t].kind \in {"stopped", "userSelectStack", "userSelectScope"}
  /\ tasks[t].pc = "variables"
  /\ Continue(t, "respondVariables",
              IF tasks[t].kind = "stopped" /\ ~tasks[t].overtaken
                THEN <<[variables |-> variables],
                       [activeThread |-> tasks[t].targetThread,
                        activeStack |-> tasks[t].stackFrames[1].id,
                        activeScope |-> tasks[t].scopes[1].variablesReference]>>
                ELSE <<[variables |-> variables]>>,
              <<>>, NoTask, FALSE)

\* refresh.variables() resumes; the 'stopped' handler then publishes its selection
respondVariables(t, variables) ==
  /\ tasks[t].kind \in {"stopped", "userSelectStack", "userSelectScope"}
  /\ tasks[t].pc = "variables"
  /\ Continue(t, "respondVariables",
              IF tasks[t].kind = "stopped"
                THEN <<[variables |-> variables],
                       [activeThread |-> tasks[t].targetThread,
                        activeStack |-> tasks[t].stackFrames[1].id,
                        activeScope |-> tasks[t].scopes[1].variablesReference]>>
                ELSE <<[variables |-> variables]>>,
              <<>>, NoTask, FALSE)

\* a rejection answered by sending the rejected request once more
rejectRequestRetry(t) ==
  /\ tasks[t].kind # "free"
  /\ Continue(t, "rejectRequest", <<>>, <<Request(tasks[t].sess, tasks[t].pc, Undefined)>>,
              tasks[t], FALSE)

\* the adapter rejects the awaited request: the invocation ends in a rejection
rejectRequest(t) ==
  /\ tasks[t].kind # "free"
  /\ Continue(t, "rejectRequest", <<>>, <<>>, NoTask, TRUE)

(* --------------------------- 'initialized' ----------------------------- *)

\* the 'initialized' handler sending 'configurationDone' without awaiting the
\* response to 'setBreakpoints'
onInitializedNoAwait(s) ==
  /\ Listening(s)
  /\ Spend("initialized")
  /\ \E t \in 1..MaxTasks : tasks[t].kind = "free"
  /\ LET task == [NoTask EXCEPT !.kind = "initialized", !.sess = s,
                                !.pc = "configurationDone"]
     IN  /\ tasks' = [tasks EXCEPT ![FreeTask] = task]
         /\ step' = [NoStep EXCEPT !.op = "onInitialized", !.sess = s,
                                   !.reqs = <<Request(s, "setBreakpoints", Undefined),
                                              Request(s, "configurationDone", Undefined)>>,
                                   !.task = task]
  /\ UNCHANGED <<debuggers, activeDebugger, starts, ui>>

\* the 'initialized' handler up to its first await: 'setBreakpoints' is sent
onInitialized(s) ==
  /\ Listening(s)
  /\ Spend("initialized")
  /\ \E t \in 1..MaxTasks : tasks[t].kind = "free"
  /\ LET task == [NoTask EXCEPT !.kind = "initialized", !.sess = s, !.pc = "setBreakpoints"]
     IN  /\ tasks' = [tasks EXCEPT ![FreeTask] = task]
         /\ step' = [NoStep EXCEPT !.op = "onInitialized", !.sess = s,
                                   !.reqs = <<Request(s, "setBreakpoints", Undefined)>>,
                                   !.task = task]
  /\ UNCHANGED <<debuggers, activeDebugger, starts, ui>>

\* the 'setBreakpoints' response: 'configurationDone' is sent
respondSetBreakpoints(t) ==
  /\ tasks[t].kind = "initialized" /\ tasks[t].pc = "setBreakpoints"
  /\ Continue(t, "respondSetBreakpoints", <<>>,
              <<Request(tasks[t].sess, "configurationDone", Undefined)>>,
              [tasks[t] EXCEPT !.pc = "configurationDone"], FALSE)

\* the 'configurationDone' response: the handler ends
respondConfigurationDone(t) ==
  /\ tasks[t].kind = "initialized" /\ tasks[t].pc = "configurationDone"
  /\ Continue(t, "respondConfigurationDone", <<>>, <<>>, NoTask, FALSE)

(* --------------------------- calls from the UI ------------------------- *)

\* a call that starts no invocation: what it publishes and requests, how it ends
Call(op, num, reqs, fault) ==
  /\ step' = [NoStep EXCEPT !.op = op, !.sess = activeDebugger, !.num = num,
                            !.reqs = reqs, !.fault = fault, !.done = TRUE]
  /\ UNCHANGED <<debuggers, activeDebugger, starts, tasks, ui>>

\* a call that goes on to await a response on the channel rpc
Spawn(op, kind, num, rpc, command) ==
  LET task == [NoTask EXCEPT !.kind = kind, !.sess = rpc, !.pc = command]
  IN  /\ tasks' = [tasks EXCEPT ![FreeTask] = task]
      /\ step' = [NoStep EXCEPT !.op = op, !.sess = activeDebugger, !.num = num,
                                !.reqs = <<Request(rpc, command, num)>>, !.task = task]
      /\ UNCHANGED <<debuggers, activeDebugger, starts, ui>>

\* userSelectStack(frameId) up to its first await
userSelectStack(frameId) ==
  /\ Spend("select")
  /\ \E t \in 1..MaxTasks : tasks[t].kind = "free"
  /\ IF ~MapHas(debuggers, activeDebugger)
       THEN Call("userSelectStack", frameId, <<>>, FALSE)
       ELSE LET rpc == GetStr(MapGet(debuggers, activeDebugger), "rpc")
            IN  IF rpc = UndefinedStr
                  THEN Call("userSelectStack", frameId, <<>>, TRUE)
                  ELSE Spawn("userSelectStack", "userSelectStack", frameId, rpc, "scopes")

\* userSelectScope(variablesReference) up to its await
userSelectScope(variablesReference) ==
  /\ Spend("select")
  /\ \E t \in 1..MaxTasks : tasks[t].kind = "free"
  /\ IF ~MapHas(debuggers, activeDebugger)
       THEN Call("userSelectScope", variablesReference, <<>>, FALSE)
       ELSE LET rpc == GetStr(MapGet(debuggers, activeDebugger), "rpc")
            IN  IF rpc = UndefinedStr
                  THEN Call("userSelectScope", variablesReference, <<>>, TRUE)
                  ELSE Spawn("userSelectScope", "userSelectScope", variablesReference,
                             rpc, "variables")

\* the debug actions without their test of dbg: dbg.rpc is read of undefined
debugActionUnchecked(command) ==
  /\ Spend("debug")
  /\ LET dbg == StoredOrEmpty(debuggers, activeDebugger)
     IN  IF GetStr(dbg, "rpc") = UndefinedStr
           THEN Call(command, Undefined, <<>>, TRUE)
           ELSE Call(command, GetNum(dbg, "activeThread"),
                     <<Request(GetStr(dbg, "rpc"), command, GetNum(dbg, "activeThread"))>>,
                     FALSE)

\* action('debug-next') and action('debug-continue'): command is 'next' or 'continue'
debugAction(command) ==
  /\ Spend("debug")
  /\ IF ~MapHas(debuggers, activeDebugger)
       THEN Call(command, Undefined, <<>>, FALSE)
       ELSE LET dbg == MapGet(debuggers, activeDebugger)
            IN  IF GetStr(dbg, "rpc") = UndefinedStr
                  THEN Call(command, Undefined, <<>>, TRUE)
                  ELSE Call(command, GetNum(dbg, "activeThread"),
                            <<Request(GetStr(dbg, "rpc"), command, GetNum(dbg, "activeThread"))>>,
                            FALSE)

debugNext == debugAction("next")

debugContinue == debugAction("continue")

(* --------------------------- specifications --------------------------- *)

\* the steps of start() calls
Startup ==
  \/ \E type \in Types : start(type)
  \/ \E s \in Sessions : startConnected(s)
  \/ \E s \in Sessions, c \in CapabilityObjects : startInitialized(s, c)
  \/ \E s \in Sessions : startLaunched(s)
  \/ \E s \in Sessions, threads \in ThreadLists : startThreads(s, threads)
  \/ \E s \in Sessions : startRejected(s)

\* the 'stopped' cascade and the user's selections
Refresh ==
  \/ \E s \in Sessions, t \in ThreadIds \cup {Undefined} : onStopped(s, t)
  \/ \E t \in 1..MaxTasks, threads \in ThreadLists : respondThreads(t, threads)
  \/ \E t \in 1..MaxTasks, stackFrames \in FrameLists : respondStackTrace(t, stackFrames)
  \/ \E t \in 1..MaxTasks, scopes \in ScopeLists : respondScopes(t, scopes)
  \/ \E t \in 1..MaxTasks, variables \in VariableLists : respondVariables(t, variables)
  \/ \E t \in 1..MaxTasks : rejectRequest(t)
  \/ \E frameId \in FrameIds : userSelectStack(frameId)
  \/ \E variablesReference \in VarRefs : userSelectScope(variablesReference)

\* sessions starting, failing, switching and receiving 'thread' notifications
Next ==
  \/ Startup
  \/ \E id \in SwitchIds : switchActiveDebugger(id)
  \/ \E s \in Sessions, t \in ThreadIds : onThread(s, t)

Spec == InitWith(RegistryQuota) /\ [][Next]_vars

\* sessions starting and receiving 'thread' and 'stopped' notifications, with the
\* user's selections
NextCascade ==
  \/ Startup
  \/ \E s \in Sessions, t \in ThreadIds : onThread(s, t)
  \/ Refresh

SpecCascade == InitWith(CascadeQuota) /\ [][NextCascade]_vars

\* two sessions starting, one 'stopped' cascade, the active session switched
NextProjection ==
  \/ Startup
  \/ \E id \in SwitchIds : switchActiveDebugger(id)
  \/ \E s \in Sessions, t \in ThreadIds \cup {Undefined} : onStopped(s, t)
  \/ \E t \in 1..MaxTasks, threads \in ThreadLists : respondThreads(t, threads)
  \/ \E t \in 1..MaxTasks, stackFrames \in FrameLists : respondStackTrace(t, stackFrames)
  \/ \E t \in 1..MaxTasks, scopes \in ScopeLists : respondScopes(t, scopes)
  \/ \E t \in 1..MaxTasks, variables \in VariableLists : respondVariables(t, variables)
  \/ \E t \in 1..MaxTasks : rejectRequest(t)

SpecProjection == InitWith(ProjectionQuota) /\ [][NextProjection]_vars

\* start() calls and 'capabilities' notifications, with every capability object
NextCapabilities ==
  \/ \E type \in Types : start(type)
  \/ \E s \in Sessions : startConnected(s)
  \/ \E s \in Sessions, c \in AllCapabilityObjects : startInitialized(s, c)
  \/ \E s \in Sessions : startLaunched(s)
  \/ \E s \in Sessions, threads \in ThreadLists : startThreads(s, threads)
  \/ \E s \in Sessions : startRejected(s)
  \/ \E s \in Sessions, c \in AllCapabilityObjects : onCapabilities(s, c)

SpecCapabilities == InitWith(CapabilitiesQuota) /\ [][NextCapabilities]_vars

\* start() calls, the user's selections and the debug actions
NextControls ==
  \/ Startup
  \/ \E frameId \in FrameIds : userSelectStack(frameId)
  \/ \E variablesReference \in VarRefs : userSelectScope(variablesReference)
  \/ debugNext
  \/ debugContinue
  \/ \E t \in 1..MaxTasks, scopes \in ScopeLists : respondScopes(t, scopes)
  \/ \E t \in 1..MaxTasks, variables \in VariableLists : respondVariables(t, variables)
  \/ \E t \in 1..MaxTasks : rejectRequest(t)

SpecControls == InitWith(ControlsQuota) /\ [][NextControls]_vars

\* start() calls with 'initialized' notifications
NextHandshake ==
  \/ Startup
  \/ \E s \in Sessions : onInitialized(s)
  \/ \E t \in 1..MaxTasks : respondSetBreakpoints(t)
  \/ \E t \in 1..MaxTasks : respondConfigurationDone(t)
  \/ \E t \in 1..MaxTasks : rejectRequest(t)

SpecHandshake == InitWith(HandshakeQuota) /\ [][NextHandshake]_vars

\* one session and 'stopped' notifications whose cascades may overlap
NextOverlap ==
  \/ Startup
  \/ \E s \in Sessions, t \in ThreadIds \cup {Undefined} : onStopped(s, t)
  \/ \E t \in 1..MaxTasks, threads \in ThreadLists : respondThreads(t, threads)
  \/ \E t \in 1..MaxTasks, stackFrames \in FrameLists : respondStackTrace(t, stackFrames)
  \/ \E t \in 1..MaxTasks, scopes \in ScopeLists : respondScopes(t, scopes)
  \/ \E t \in 1..MaxTasks, variables \in VariableLists : respondVariables(t, variables)
  \/ \E t \in 1..MaxTasks : rejectRequest(t)

SpecOverlap == InitWith(OverlapQuota) /\ [][NextOverlap]_vars

(* ------------------------------- claims -------------------------------- *)

\* the registry entry of a registered id
Entry(id) == MapGet(debuggers, id)

\* what switchActiveDebugger(id) publishes when the entry of id is dbg
SelectionOf(id, dbg) ==
  [activeDebugger |-> id,
   activeThread |-> GetNum(dbg, "activeThread"),
   activeStack |-> GetNum(dbg, "activeStack"),
   activeScope |-> GetNum(dbg, "activeScope")]

\* C1: in every reachable state the active id is the initial 'no active session'
\* value or a key of the registry, whatever start() calls (several in flight,
\* some failing), switches, notifications and responses have happened.
ActiveIsInitialOrRegistered ==
  activeDebugger = lolnope \/ MapHas(debuggers, activeDebugger)

\* a session is active after another start() call has failed
ActiveWhileOtherFailed ==
  /\ activeDebugger \in Sessions
  /\ \E s \in Sessions : starts[s].pc \in {"failed", "unconnected"} /\ s # activeDebugger

\* C2: switchActiveDebugger(id) for an id that is no key of the registry returns
\* false, changes neither the active id nor the registry, and publishes nothing.
SwitchToUnknownChangesNothing ==
  [][(step'.op = "switchActiveDebugger" /\ ~MapHas(debuggers, step'.id))
       => /\ step'.ret = FALSE
          /\ activeDebugger' = activeDebugger
          /\ debuggers' = debuggers
          /\ step'.pubs = <<>>
          /\ ui' = ui]_vars

\* a switch to an unknown id was refused while a session was registered and active
SwitchToUnknownRefused ==
  /\ step.op = "switchActiveDebugger"
  /\ ~MapHas(debuggers, step.id)
  /\ step.ret = FALSE
  /\ activeDebugger \in Sessions

\* C3: switchActiveDebugger(id) for a registered id returns true, makes id the
\* active id, and publishes exactly the active id with the activeThread,
\* activeStack and activeScope its registry entry holds at that moment.
SwitchToKnownPublishesItsSelection ==
  [][(step'.op = "switchActiveDebugger" /\ MapHas(debuggers, step'.id))
       => /\ step'.ret = TRUE
          /\ activeDebugger' = step'.id
          /\ debuggers' = debuggers
          /\ step'.pubs = <<SelectionOf(step'.id, Entry(step'.id))>>
          /\ ui' = merge(ui, SelectionOf(step'.id, Entry(step'.id)))]_vars

\* a switch from the active session to another registered one whose stored
\* activeThread differs from the one published last
SwitchedToOtherSession ==
  /\ step.op = "switchActiveDebugger"
  /\ step.ret = TRUE
  /\ Len(debuggers) = 2
  /\ ui.activeThread \in ThreadIds
  /\ \E i \in 1..2 : /\ debuggers[i].key # activeDebugger
                     /\ GetNum(debuggers[i].val, "activeThread") # ui.activeThread

\* the selection a completed 'stopped' cascade publishes last
LastPub == step.pubs[Len(step.pubs)]

\* the last step completed the 'stopped' cascade of a started session
CascadeCompleted ==
  /\ step.op = "respondVariables"
  /\ step.task.kind = "stopped"
  /\ starts[step.sess].pc = "done"

\* C4: a 'stopped' notification with threadId = T whose stackTrace, scopes and
\* variables requests are answered with non-empty lists ends with the published
\* selection {activeThread: T, activeStack: first frame's id, activeScope: first
\* scope's variablesReference}, for every thread id T, 0 included.
StoppedPublishesNotifiedThread ==
  (CascadeCompleted /\ step.task.threadId # Undefined)
    => /\ LastPub = [activeThread |-> step.task.threadId,
                     activeStack |-> step.task.stackFrames[1].id,
                     activeScope |-> step.task.scopes[1].variablesReference]
       /\ ui.activeThread = step.task.threadId
       /\ ui.activeStack = step.task.stackFrames[1].id
       /\ ui.activeScope = step.task.scopes[1].variablesReference

\* C5: a 'stopped' notification without threadId roots its cascade at the
\* activeThread the session's registry entry holds when the notification is
\* handled, also after 'thread' notifications changed it since startup; the
\* stackTrace request carries that thread.
StoppedWithoutThreadUsesRegistryThread ==
  /\ (step.op = "onStopped" /\ step.num = Undefined /\ starts[step.sess].pc = "done")
       => step.task.targetThread = GetNum(Entry(step.sess), "activeThread")
  /\ (step.op = "respondThreads")
       => step.reqs = <<Request(step.sess, "stackTrace", step.task.targetThread)>>

\* C6: when the adapter answers stackTrace or scopes with an empty list, during
\* a 'stopped' cascade or userSelectStack, the operation publishes that list and
\* stops: no further request, no selection, no fault.
EmptyListEndsWithoutFault ==
  (/\ step.op \in {"respondStackTrace", "respondScopes"}
   /\ step.pubs[1] \in {[stackFrames |-> <<>>], [scopes |-> <<>>]})
    => /\ step.done
       /\ ~step.fault
       /\ step.reqs = <<>>
       /\ Len(step.pubs) = 1

\* C7: when the adapter rejects the initialize, launch or startup threads
\* request of a start() call, the registry never holds an entry under that
\* call's id, whatever notifications its channel delivered before the rejection.
FailedStartIsNotRegistered ==
  \A s \in Sessions : starts[s].pc = "failed" => ~MapHas(debuggers, s)

\* C8: when start() completes, the session is registered and active, and its
\* stored activeThread is the id of the first thread of the startup threads
\* response (0 included), and -1 exactly when that response is empty.
StartStoresFirstThread ==
  step.op = "startThreads"
    => /\ MapHas(debuggers, step.sess)
       /\ activeDebugger = step.sess
       /\ LET threads == Entry(step.sess).threads
          IN  GetNum(Entry(step.sess), "activeThread") =
                IF threads = <<>> THEN Unselected ELSE threads[1].id

\* C9: every registry entry, also one created by updateDebuggerState for an id
\* not yet registered, carries its key as id and a defined type, so no session
\* summary lacks an id or a type.
EntriesCarryIdAndType ==
  \A i \in 1..Len(debuggers) :
    /\ GetStr(debuggers[i].val, "id") = debuggers[i].key
    /\ GetStr(debuggers[i].val, "type") # UndefinedStr
    /\ listActiveDebuggers(debuggers)[i].id # UndefinedStr

\* C10: whatever is published to the UI sink comes from the session that is
\* active at that moment: notifications on a non-active session and responses
\* to requests of a session no longer active publish nothing.
OnlyActiveSessionPublishes ==
  (step.pubs # <<>> /\ activeDebugger \in Sessions) => step.sess = activeDebugger

\* the capability set of a start() call
Features(s) == starts[s].features

\* C11: a session's capability set only grows: a key once present stays; the
\* initialize response and every 'capabilities' notification set each of their
\* keys to their value and leave every other key as it was, in whatever order
\* they are handled.
CapabilitiesOnlyGrow ==
  [][\A s \in Sessions :
       /\ DOMAIN Features(s) \subseteq DOMAIN Features(s)'
       /\ (step'.op \in {"startInitialized", "onCapabilities"} /\ step'.sess = s)
            => /\ DOMAIN Features(s)' = DOMAIN Features(s) \cup DOMAIN step'.obj
               /\ \A k \in DOMAIN Features(s)' :
                    Features(s)'[k] = IF k \in DOMAIN step'.obj THEN step'.obj[k]
                                      ELSE Features(s)[k]]_vars

\* the initialize response was handled after a 'capabilities' notification that
\* brought a key the response lacks, and it overwrote another key
InitializeAfterCapabilities ==
  /\ step.op = "startInitialized"
  /\ \E k \in DOMAIN Features(step.sess) : k \notin DOMAIN step.obj
  /\ \E k \in DOMAIN step.obj : step.obj[k] = FALSE

\* the operations the UI calls on the active session
UserOps == {"userSelectStack", "userSelectScope", "next", "continue"}

\* C12: with an active id that names no registered session, userSelectStack,
\* userSelectScope, debug-next and debug-continue send no request, publish
\* nothing, change neither the registry nor the active id, and do not raise.
UserOpsWithoutSessionDoNothing ==
  [][(step'.op \in UserOps /\ ~MapHas(debuggers, activeDebugger))
       => /\ step'.reqs = <<>>
          /\ step'.pubs = <<>>
          /\ ~step'.fault
          /\ step'.done
          /\ UNCHANGED <<debuggers, activeDebugger, ui, tasks>>]_vars

\* a debug action was run while a start() call had its channel open but no
\* session was registered
DebugActionBeforeRegistration ==
  /\ step.op \in {"next", "continue"}
  /\ ~MapHas(debuggers, activeDebugger)
  /\ \E s \in Sessions : starts[s].pc = "threads"

\* the commands of the requests the last step sent
Sent == {step.reqs[i].command : i \in 1..Len(step.reqs)}

\* C13: start() sends initialize, launch, threads in that order, each on the
\* response to the one before; the session is registered and active only after
\* the threads response; and no setBreakpoints or configurationDone request of a
\* session is sent before its launch request.
StartupInOrder ==
  /\ step.op = "startConnected" => step.reqs = <<Request(step.sess, "initialize", Undefined)>>
  /\ "initialize" \in Sent => step.op = "startConnected"
  /\ step.op = "startInitialized" => step.reqs = <<Request(step.sess, "launch", Undefined)>>
  /\ "launch" \in Sent => step.op = "startInitialized"
  /\ step.op = "startLaunched" => step.reqs = <<Request(step.sess, "threads", Undefined)>>
  /\ "threads" \in Sent => step.op = "startLaunched"
  /\ \A s \in Sessions : (MapHas(debuggers, s) \/ activeDebugger = s) => starts[s].pc = "done"
  /\ \A i \in 1..Len(step.reqs) :
       step.reqs[i].command \in {"setBreakpoints", "configurationDone"}
         => starts[step.reqs[i].rpc].launched

\* C14: 'configurationDone' is sent only by an 'initialized' handler, once, on
\* the successful response to its 'setBreakpoints' request; a rejected
\* 'setBreakpoints' ends the handler with nothing sent.
ConfigurationDoneAfterBreakpoints ==
  /\ "configurationDone" \in Sent
       => /\ step.op = "respondSetBreakpoints"
          /\ step.task.kind = "initialized"
          /\ step.task.pc = "setBreakpoints"
          /\ step.reqs = <<Request(step.task.sess, "configurationDone", Undefined)>>
  /\ "setBreakpoints" \in Sent
       => /\ step.op = "onInitialized"
          /\ step.reqs = <<Request(step.sess, "setBreakpoints", Undefined)>>
  /\ (step.op \in {"rejectRequest", "respondConfigurationDone"} /\ step.task.kind = "initialized")
       => step.reqs = <<>> /\ step.done
  /\ \A t \in 1..MaxTasks :
       tasks[t].kind = "initialized" => tasks[t].pc \in {"setBreakpoints", "configurationDone"}

\* one 'initialized' handler has sent 'configurationDone' while the handler of
\* another 'initialized' notification was ended by a rejected 'setBreakpoints'
ConfigurationDoneSentOnce ==
  /\ step.op = "respondSetBreakpoints"
  /\ "configurationDone" \in Sent
  /\ quota.initialized = 0
  /\ \A t \in 1..MaxTasks : tasks[t].kind = "initialized" => tasks[t].pc = "configurationDone"
  /\ Cardinality({t \in 1..MaxTasks : tasks[t].kind = "initialized"}) = 1

\* C15: a 'thread' notification with thread id T leaves the session's registry
\* entry with activeThread = T and, where an entry was stored, every other
\* field of it as it was; on the active session the activeThread the sink then
\* holds is T and the summaries it holds are the registry's projection.
ThreadNotificationSetsActiveThread ==
  [][step'.op = "onThread"
       => /\ MapHas(debuggers', step'.sess)
          /\ GetNum(MapGet(debuggers', step'.sess), "activeThread") = step'.num
          /\ MapHas(debuggers, step'.sess)
               => MapGet(debuggers', step'.sess)
                    = merge(MapGet(debuggers, step'.sess), [activeThread |-> step'.num])
          /\ step'.sess = activeDebugger
               => /\ GetNum(ui', "activeThread") = step'.num
                  /\ "debuggers" \in DOMAIN ui'
                  /\ ui'["debuggers"] = listActiveDebuggers(debuggers')]_vars

\* the selection the sink holds
Published == [activeThread |-> GetNum(ui, "activeThread"),
              activeStack |-> GetNum(ui, "activeStack"),
              activeScope |-> GetNum(ui, "activeScope")]

\* C16: a 'stopped' notification handled while another cascade awaits a
\* response sends its 'threads' request at once and leaves the other cascade as
\* it is; whenever a cascade completes, the selection the sink holds is the one
\* this cascade computed, whichever notification arrived first.
OverlappingCascadesLastWriteWins ==
  [][/\ step'.op = "onStopped"
          => /\ step'.reqs = <<Request(step'.sess, "threads", Undefined)>>
             /\ \A t \in 1..MaxTasks : tasks[t].kind # "free" => tasks'[t] = tasks[t]
     /\ (step'.op = "respondVariables" /\ step'.task.kind = "stopped")
          => Published' = [activeThread |-> step'.task.targetThread,
                           activeStack |-> step'.task.stackFrames[1].id,
                           activeScope |-> step'.task.scopes[1].variablesReference]]_vars

\* the cascade of the first 'stopped' notification completed after the cascade
\* of the second had completed with another selection, and no cascade remains
FirstCascadeCompletedLast ==
  /\ step.op = "respondVariables"
  /\ step.task.kind = "stopped"
  /\ step.task.overtaken
  /\ step.task.threadId # Undefined
  /\ Published.activeThread = step.task.threadId
  /\ Published.activeStack = 0
  /\ quota.stopped = 0
  /\ \A t \in 1..MaxTasks : tasks[t].kind = "free"

\* C17: whenever a selection is published, the published activeStack is the id
\* of a frame of the stackFrames list last published and the published
\* activeScope is the variablesReference of a scope of the scopes list last
\* published.
PublishedSelectionRefersToPublishedLists ==
  (\E i \in 1..Len(step.pubs) : DOMAIN step.pubs[i] \cap {"activeStack", "activeScope"} # {})
    => /\ "activeStack" \in DOMAIN ui
            => /\ "stackFrames" \in DOMAIN ui
               /\ \E i \in 1..Len(ui["stackFrames"]) : ui["stackFrames"][i].id = ui["activeStack"]
       /\ "activeScope" \in DOMAIN ui
            => /\ "scopes" \in DOMAIN ui
               /\ \E i \in 1..Len(ui["scopes"]) :
                    ui["scopes"][i].variablesReference = ui["activeScope"]

\* C18: a rejection in the middle of a 'stopped' cascade ends the cascade: no
\* request is sent, nothing is published, what the sink holds, the registry and
\* the active id stay as they were.
RejectionEndsCascade ==
  [][(step'.op = "rejectRequest" /\ step'.task.kind = "stopped")
       => /\ step'.reqs = <<>>
          /\ step'.pubs = <<>>
          /\ step'.done
          /\ \A t \in 1..MaxTasks : tasks'[t] # step'.task
          /\ UNCHANGED <<ui, debuggers, activeDebugger>>]_vars

\* the 'scopes' request of a cascade that had published threads and stack
\* frames was rejected
ScopesRejected ==
  /\ step.op = "rejectRequest"
  /\ step.task.kind = "stopped"
  /\ step.task.pc = "scopes"
  /\ "stackFrames" \in DOMAIN ui
  /\ ui["stackFrames"] = step.task.stackFrames

\* C19: when a 'stopped' cascade completes on the active session, the session's
\* registry entry holds the selection {activeThread, activeStack, activeScope}
\* the cascade published.
RegistryHoldsPublishedSelection ==
  (CascadeCompleted /\ step.sess = activeDebugger /\ MapHas(debuggers, step.sess))
    => /\ GetNum(Entry(step.sess), "activeThread") = LastPub.activeThread
       /\ GetNum(Entry(step.sess), "activeStack") = LastPub.activeStack
       /\ GetNum(Entry(step.sess), "activeScope") = LastPub.activeScope

\* C20: when switchActiveDebugger has returned true or start() has completed,
\* the active id and the summaries the sink holds are the registry's active id
\* and its {id, type} projection.
PublishedSessionsMatchRegistry ==
  ((step.op = "switchActiveDebugger" /\ step.ret) \/ step.op = "startThreads")
    => /\ GetStr(ui, "activeDebugger") = activeDebugger
       /\ "debuggers" \in DOMAIN ui
       /\ ui["debuggers"] = listActiveDebuggers(debuggers)

====
